---- MODULE Spec2Model ----
(***************************************************************************)
(* Model of finance_app.py: the asset-text parser and the three projection *)
(* passes (income statement, cash flow, balance sheet) followed by the     *)
(* balance check.                                                          *)
(*                                                                         *)
(* The script computes with Python floats (IEEE-754 binary64).  Every      *)
(* arithmetic operation of the script is modelled by the correctly rounded *)
(* binary64 operation (round to nearest, ties to even) defined below, so   *)
(* that re-associations which are identities over the reals are not        *)
(* identities here.  Exponent overflow, subnormals, infinities, NaN and    *)
(* the sign of zero are not modelled: the inputs enumerated in Init keep   *)
(* every value finite and far inside the normal range.  The integer inputs *)
(* enumerated in Init are below 2^53 and so are the results the script     *)
(* computes from them with Python int arithmetic, hence that arithmetic    *)
(* coincides with the binary64 operations used here.                       *)
(***************************************************************************)
EXTENDS Integers, Sequences, FiniteSets, TLC

(***************************************************************************)
(* Natural numbers of arbitrary size: little-endian sequences of digits in *)
(* base 2^15 with no most-significant zero digit; << >> is 0.  (TLC's own  *)
(* integers are 32 bits wide; a product of two digits fits in them.)       *)
(***************************************************************************)
LimbBits == 31 \div 2

Base == 2 ^ LimbBits

RECURSIVE NTrim(_)
NTrim(a) ==
    IF a = << >> THEN << >>
    ELSE IF a[Len(a)] # 0 THEN a
    ELSE NTrim(SubSeq(a, 1, Len(a) - 1))

NDigit(a, i) == IF i <= Len(a) THEN a[i] ELSE 0

RECURSIVE NFromInt(_)
NFromInt(n) == IF n = 0 THEN << >> ELSE <<n % Base>> \o NFromInt(n \div Base)

NZeros(k) == [i \in 1..k |-> 0]

\* a * Base^k
NShl(a, k) == IF a = << >> THEN << >> ELSE NZeros(k) \o a

RECURSIVE NAddC(_, _, _, _)
NAddC(a, b, i, c) ==
    IF i > Len(a) /\ i > Len(b)
    THEN (IF c = 0 THEN << >> ELSE <<c>>)
    ELSE LET t == NDigit(a, i) + NDigit(b, i) + c
         IN  <<t % Base>> \o NAddC(a, b, i + 1, t \div Base)

NAdd(a, b) == NAddC(a, b, 1, 0)

\* a - b for a >= b
RECURSIVE NSubC(_, _, _, _)
NSubC(a, b, i, c) ==
    IF i > Len(a) THEN << >>
    ELSE LET t == a[i] - NDigit(b, i) - c
         IN  <<(t + Base) % Base>> \o NSubC(a, b, i + 1, IF t < 0 THEN 1 ELSE 0)

NSub(a, b) == NTrim(NSubC(a, b, 1, 0))

NLess(a, b) ==
    IF Len(a) # Len(b) THEN Len(a) < Len(b)
    ELSE LET D == {i \in 1..Len(a) : a[i] # b[i]}
         IN  D # {} /\ LET k == CHOOSE i \in D : \A j \in D : j <= i
                       IN  a[k] < b[k]

\* a * d for one digit d
RECURSIVE NMulDigitC(_, _, _, _)
NMulDigitC(a, d, i, c) ==
    IF i > Len(a) THEN (IF c = 0 THEN << >> ELSE <<c>>)
    ELSE LET t == a[i] * d + c
         IN  <<t % Base>> \o NMulDigitC(a, d, i + 1, t \div Base)

RECURSIVE NMulFrom(_, _, _)
NMulFrom(a, b, i) ==
    IF i > Len(b) THEN << >>
    ELSE NAdd(IF b[i] = 0 THEN << >> ELSE NShl(NMulDigitC(a, b[i], 1, 0), i - 1),
              NMulFrom(a, b, i + 1))

NMul(a, b) == NMulFrom(a, b, 1)

\* division of n by one digit d # 0, from the most significant digit of n
\* down: <<quotient, remainder>>
RECURSIVE NDivDigit(_, _, _, _, _)
NDivDigit(n, d, i, r, q) ==
    IF i = 0 THEN <<NTrim(q), r>>
    ELSE NDivDigit(n, d, i - 1, (r * Base + n[i]) % d,
                   <<(r * Base + n[i]) \div d>> \o q)

NDivMod(n, d) == NDivDigit(n, d, Len(n), 0, << >>)

\* the number of bits of a digit, and of a natural number
DigitLen(d) == CHOOSE k \in 0..LimbBits : d < 2 ^ k /\ (k = 0 \/ d >= 2 ^ (k - 1))

NBitLen(a) == IF a = << >> THEN 0 ELSE LimbBits * (Len(a) - 1) + DigitLen(a[Len(a)])

(***************************************************************************)
(* binary64 values: (-1)^s * m * Base^e with m a natural number whose      *)
(* least significant digit is not zero (or m = 0, e = 0, s = 0): one       *)
(* representation per finite double, so equality of doubles is equality of *)
(* records.                                                                *)
(***************************************************************************)
MANT_DIG == 53

FZero == [s |-> 0, m |-> << >>, e |-> 0]

\* the canonical form of (-1)^s * m * Base^e
FCanon(s, m, e) ==
    LET t == NTrim(m)
    IN  IF t = << >> THEN FZero
        ELSE LET tz == (CHOOSE i \in 1..Len(t) :
                            t[i] # 0 /\ \A j \in 1..(i - 1) : t[j] = 0) - 1
             IN  [s |-> s, m |-> SubSeq(t, tz + 1, Len(t)), e |-> e + tz]

\* (-1)^s * (m + f) * Base^e, where 0 < f < 1 if sticky and f = 0 otherwise,
\* rounded to MANT_DIG significant bits, ties to even
FRound(s, m, e, sticky) ==
    IF NBitLen(m) <= MANT_DIG THEN FCanon(s, m, e)
    ELSE LET k     == NBitLen(m) - MANT_DIG      \* bits to drop
             a     == k \div LimbBits            \* whole digits dropped
             b     == k % LimbBits               \* bits dropped of digit a+1
             hi    == (k - 1) \div LimbBits + 1  \* digit of the half bit
             hb    == (k - 1) % LimbBits         \* the half bit in it
             half  == (m[hi] \div 2 ^ hb) % 2 = 1
             low   == sticky \/ m[hi] % 2 ^ hb # 0
                             \/ \E i \in 1..(hi - 1) : m[i] # 0
             odd   == (m[a + 1] \div 2 ^ b) % 2 = 1
             kept  == [i \in 1..Len(m) |->
                          IF i <= a THEN 0
                          ELSE IF i = a + 1 THEN (m[i] \div 2 ^ b) * 2 ^ b
                          ELSE m[i]]
             up    == half /\ (low \/ odd)
         IN  FCanon(s, IF up THEN NAdd(kept, Append(NZeros(a), 2 ^ b)) ELSE kept, e)

FromInt(n) == IF n < 0 THEN FCanon(1, NFromInt(-n), 0) ELSE FCanon(0, NFromInt(n), 0)

FNeg(x) == IF x.m = << >> THEN x ELSE [x EXCEPT !.s = 1 - x.s]

FAbs(x) == [x EXCEPT !.s = 0]

\* |x| < |y|
FMagLess(x, y) ==
    IF y.m = << >> THEN FALSE
    ELSE IF x.m = << >> THEN TRUE
    ELSE LET e == IF x.e < y.e THEN x.e ELSE y.e
         IN  NLess(NShl(x.m, x.e - e), NShl(y.m, y.e - e))

FLess(x, y) ==
    IF x.s # y.s THEN x.s = 1
    ELSE IF x.s = 0 THEN FMagLess(x, y) ELSE FMagLess(y, x)

FAdd(x, y) ==
    IF x.m = << >> THEN y
    ELSE IF y.m = << >> THEN x
    ELSE LET e  == IF x.e < y.e THEN x.e ELSE y.e
             mx == NShl(x.m, x.e - e)
             my == NShl(y.m, y.e - e)
         IN  IF x.s = y.s THEN FRound(x.s, NAdd(mx, my), e, FALSE)
             ELSE IF NLess(mx, my) THEN FRound(y.s, NSub(my, mx), e, FALSE)
             ELSE FRound(x.s, NSub(mx, my), e, FALSE)

FSub(x, y) == FAdd(x, FNeg(y))

FMul(x, y) ==
    IF x.m = << >> \/ y.m = << >> THEN FZero
    ELSE FRound((x.s + y.s) % 2, NMul(x.m, y.m), x.e + y.e, FALSE)

\* x / y for a divisor y = (+/-) d * Base^e of one digit d # 0 (every divisor
\* of the script is a small integer: 100 and the asset lives).  The
\* dividend is scaled to 6 digits so that the quotient has more than
\* MANT_DIG + 1 bits; a non-zero remainder is the sticky part.
FDiv(x, y) ==
    IF x.m = << >> THEN FZero
    ELSE LET k  == IF Len(x.m) < 6 THEN 6 - Len(x.m) ELSE 0
             qr == NDivMod(NShl(x.m, k), y.m[1])
         IN  FRound((x.s + y.s) % 2, qr[1], x.e - y.e - k, qr[2] # 0)

\* n * Base^k as a double: how Init writes an integer input beyond TLC's own
\* integers
Scaled(n, k) == FCanon(0, NFromInt(n), k)

FMax(x, y) == IF FLess(x, y) THEN y ELSE x

(***************************************************************************)
(* Text.  A str is a sequence of one-character strings.                    *)
(***************************************************************************)
NL == "\n"

\* str.split(sep) for a one-character separator
Split(s, sep) ==
    LET P      == {i \in 1..Len(s) : s[i] = sep}
        cut(k) == IF k = 0 THEN 0
                  ELSE IF k = Cardinality(P) + 1 THEN Len(s) + 1
                  ELSE CHOOSE i \in P : Cardinality({j \in P : j < i}) = k - 1
    IN  [k \in 1..(Cardinality(P) + 1) |-> SubSeq(s, cut(k - 1) + 1, cut(k) - 1)]

IsSpace(c) == c \in {" ", "\t", "\r", NL}

\* str.strip()
Strip(s) ==
    LET K == {i \in 1..Len(s) : ~IsSpace(s[i])}
    IN  IF K = {} THEN << >>
        ELSE SubSeq(s, CHOOSE i \in K : \A j \in K : i <= j,
                       CHOOSE i \in K : \A j \in K : j <= i)

Digits == <<"0", "1", "2", "3", "4", "5", "6", "7", "8", "9">>

IsDigit(c) == \E d \in 1..10 : Digits[d] = c

DigitVal(c) == (CHOOSE d \in 1..10 : Digits[d] = c) - 1

Unsigned(s) == IF s # << >> /\ s[1] \in {"+", "-"} THEN Tail(s) ELSE s

RECURSIVE DigitsVal(_)
DigitsVal(s) ==
    IF s = << >> THEN 0
    ELSE 10 * DigitsVal(SubSeq(s, 1, Len(s) - 1)) + DigitVal(s[Len(s)])

\* int(s) does not raise ValueError: an optional sign and decimal digits
IsIntStr(s) ==
    LET b == Unsigned(s) IN b # << >> /\ \A i \in 1..Len(b) : IsDigit(b[i])

\* int(s)
ParseInt(s) ==
    IF s[1] = "-" THEN -DigitsVal(Unsigned(s)) ELSE DigitsVal(Unsigned(s))

\* float(s) does not raise ValueError: an optional sign and decimal digits
\* with at most one point among them (the texts of Init hold no "inf", "nan",
\* exponent or underscore, which float() takes as well)
IsFloatStr(s) ==
    LET b == Unsigned(s)
    IN  /\ \E i \in 1..Len(b) : IsDigit(b[i])
        /\ \A i \in 1..Len(b) : IsDigit(b[i]) \/ b[i] = "."
        /\ Cardinality({i \in 1..Len(b) : b[i] = "."}) <= 1

\* float(s): the double nearest to the decimal; with k digits after the
\* point it is the correctly rounded quotient of the digits' integer by 10^k
ParseFloat(s) ==
    LET b    == Unsigned(s)
        ds   == SelectSeq(b, IsDigit)
        dot  == {i \in 1..Len(b) : b[i] = "."}
        k    == IF dot = {} THEN 0 ELSE Len(b) - (CHOOSE i \in dot : TRUE)
        v    == IF k = 0 THEN FromInt(DigitsVal(ds))
                ELSE FDiv(FromInt(DigitsVal(ds)), FromInt(10 ^ k))
    IN  IF s[1] = "-" THEN FNeg(v) ELSE v

\* ParseAssetLine with a value that is no number taken as 0.0
ParseAssetLineDefaulting(line) ==
    LET parts == [i \in DOMAIN Split(line, ",") |-> Strip(Split(line, ",")[i])]
    IN  IF Len(parts) = 3 /\ IsIntStr(parts[3])
        THEN <<[name |-> parts[1],
                val |-> IF IsFloatStr(parts[2]) THEN ParseFloat(parts[2]) ELSE FZero,
                life |-> ParseInt(parts[3])]>>
        ELSE << >>

\* one iteration of the parsing loop: the entries the line adds to
\* assets_list (one, or none when the line is skipped)
ParseAssetLine(line) ==
    LET parts == [i \in DOMAIN Split(line, ",") |-> Strip(Split(line, ",")[i])]
    IN  IF Len(parts) = 3 /\ IsFloatStr(parts[2]) /\ IsIntStr(parts[3])
        THEN <<[name |-> parts[1], val |-> ParseFloat(parts[2]),
                life |-> ParseInt(parts[3])]>>
        ELSE << >>

(***************************************************************************)
(* sum() over floats.  CPython up to 3.11 adds from left to right; from    *)
(* 3.12 on it adds with Neumaier's compensation.  The script runs on       *)
(* either, so the interpreter's summation is part of the environment.      *)
(***************************************************************************)
RECURSIVE SumNaive(_, _)
SumNaive(xs, acc) ==
    IF xs = << >> THEN acc ELSE SumNaive(Tail(xs), FAdd(acc, Head(xs)))

RECURSIVE SumNeumaier(_, _, _)
SumNeumaier(xs, s, c) ==
    IF xs = << >> THEN FAdd(s, c)
    ELSE LET x == Head(xs)
             t == FAdd(s, x)
         IN  SumNeumaier(Tail(xs), t,
                 FAdd(c, IF ~FMagLess(s, x) THEN FAdd(FSub(s, t), x)
                                            ELSE FAdd(FSub(x, t), s)))

PySum(xs, mode) ==
    IF xs = << >> THEN FZero
    ELSE IF mode = "neumaier" THEN SumNeumaier(Tail(xs), Head(xs), FZero)
    ELSE SumNaive(xs, FZero)

(***************************************************************************)
(* The three passes, one loop iteration each.                              *)
(***************************************************************************)
\* val / life raises ZeroDivisionError
DepreciationRaises(assets_list) ==
    \E i \in 1..Len(assets_list) : assets_list[i].life = 0

Depreciation(assets_list, mode) ==
    IF assets_list # << >>
    THEN PySum([i \in 1..Len(assets_list) |->
                   FDiv(assets_list[i].val, FromInt(assets_list[i].life))], mode)
    ELSE FZero

\* Taxes without the test ebt > 0
TaxesUnguarded(ebt, tax_rate) == FMul(ebt, tax_rate)

\* taxes = ebt * tax_rate if ebt > 0 else 0
Taxes(ebt, tax_rate) == IF FLess(FZero, ebt) THEN FMul(ebt, tax_rate) ELSE FZero

\* The row the income loop appends for one year: IncomeRow.  The loop body is
\* a chain of definitions, each taking the locals computed so far and
\* computing the next ones for the definition above it.

\* data.append([f"Year {year}", sales, gross_profit, ...])
IncomeAppend(a, year, u, p, sales, gross_profit, manpower_cost, depreciation, ebit, taxes, net_income) ==
    [Year |-> year, Sales |-> sales, Gross_Profit |-> gross_profit,
     Fixed_Costs |-> a.fixed_costs, Manpower |-> manpower_cost,
     Depreciation |-> depreciation, EBIT |-> ebit, Interest |-> a.interest,
     Taxes |-> taxes, Net_Income |-> net_income, Units |-> u,
     Price_per_Unit |-> p, CapEx_Input |-> a.capex_input]

\* net_income = ebt - taxes
IncomeAfterTax(a, year, u, p, sales, gross_profit, manpower_cost, depreciation, ebit, ebt, taxes) ==
    IncomeAppend(a, year, u, p, sales, gross_profit, manpower_cost, depreciation,
                 ebit, taxes, FSub(ebt, taxes))

\* taxes = ebt * tax_rate if ebt > 0 else 0
IncomeBeforeTax(a, year, u, p, sales, gross_profit, manpower_cost, depreciation, ebit, ebt) ==
    IncomeAfterTax(a, year, u, p, sales, gross_profit, manpower_cost, depreciation,
                   ebit, ebt, Taxes(ebt, a.tax_rate))

\* ebt = ebit - interest
IncomeOperating(a, year, u, p, sales, gross_profit, manpower_cost, depreciation, ebit) ==
    IncomeBeforeTax(a, year, u, p, sales, gross_profit, manpower_cost, depreciation,
                    ebit, FSub(ebit, a.interest))

\* opex = fixed_costs + manpower_cost + depreciation; ebit = gross_profit - opex
IncomeGross(a, year, u, p, sales, gross_profit, manpower_cost, depreciation) ==
    IncomeOperating(a, year, u, p, sales, gross_profit, manpower_cost, depreciation,
                    FSub(gross_profit,
                         FAdd(FAdd(a.fixed_costs, manpower_cost), depreciation)))

\* IncomeSales with the variable cost taken on the price instead of the units
IncomeSalesCostOnPrice(a, year, u, p, salary, assets_list, mode, sales) ==
    IncomeGross(a, year, u, p, sales,
                FSub(sales, FMul(p, a.variable_cost_per_unit)),
                FMul(a.num_employees, salary), Depreciation(assets_list, mode))

\* IncomeSales with an asset depreciated over the years of its life only
IncomeSalesExpiring(a, year, u, p, salary, assets_list, mode, sales) ==
    IncomeGross(a, year, u, p, sales,
                FSub(sales, FMul(u, a.variable_cost_per_unit)),
                FMul(a.num_employees, salary),
                Depreciation(SelectSeq(assets_list, LAMBDA x : year <= x.life), mode))

\* cogs = u * variable_cost_per_unit; gross_profit = sales - cogs;
\* manpower_cost = num_employees * salary; depreciation = sum(...)
IncomeSales(a, year, u, p, salary, assets_list, mode, sales) ==
    IncomeGross(a, year, u, p, sales,
                FSub(sales, FMul(u, a.variable_cost_per_unit)),
                FMul(a.num_employees, salary), Depreciation(assets_list, mode))

\* sales = u * p
IncomeRow(a, year, u, p, salary, assets_list, mode) ==
    IncomeSales(a, year, u, p, salary, assets_list, mode, FMul(u, p))

\* x *= (1 + growth)
Grow(x, growth) == FMul(x, FAdd(FromInt(1), growth))

\* the literals 0.20 and 0.10
AR_SHARE == FDiv(FromInt(20), FromInt(100))

INV_SHARE == FDiv(FromInt(10), FromInt(100))

\* ar = row["Sales"] * 0.20 and inv = row["Sales"] * 0.10, in both loops
Receivable(row) == FMul(row.Sales, AR_SHARE)

Inventory(row) == FMul(row.Sales, INV_SHARE)

\* the row the cash flow loop appends for one income row, given the
\* previous year's closing values; each definition computes the next locals
\* of the loop body: closing_cash = cash_prev + net_cf and cf_rows.append
CashFlowAppend(row, cash_prev, d_ar, d_inv, cf_ops, cf_inv, cf_fin, net_cf) ==
    [Year |-> row.Year, Net_Income |-> row.Net_Income,
     Depreciation |-> row.Depreciation,
     dAR |-> FNeg(d_ar), dInventory |-> FNeg(d_inv), dAP |-> FZero,
     Net_CF_Ops |-> cf_ops, CapEx |-> FNeg(row.CapEx_Input), Net_CF_Inv |-> cf_inv,
     Change_NCL |-> FZero, Change_SC |-> FZero,
     Interest_Paid |-> FNeg(row.Interest), Net_CF_Fin |-> cf_fin,
     Net_Change_Cash |-> net_cf, Closing_Cash |-> FAdd(cash_prev, net_cf)]

\* net_cf = cf_ops + cf_inv + cf_fin
CashFlowNet(row, cash_prev, d_ar, d_inv, cf_ops, cf_inv, cf_fin) ==
    CashFlowAppend(row, cash_prev, d_ar, d_inv, cf_ops, cf_inv, cf_fin,
                   FAdd(FAdd(cf_ops, cf_inv), cf_fin))

\* d_ap, d_ncl, d_sc = 0, 0, 0;
\* cf_ops = net_income + depreciation - d_ar - d_inv + d_ap; cf_inv = -capex;
\* cf_fin = d_ncl + d_sc - interest_paid
CashFlowSubtotals(row, cash_prev, d_ar, d_inv) ==
    CashFlowNet(row, cash_prev, d_ar, d_inv,
                FAdd(FSub(FSub(FAdd(row.Net_Income, row.Depreciation), d_ar), d_inv),
                     FZero),
                FNeg(row.CapEx_Input),
                FSub(FAdd(FZero, FZero), row.Interest))

\* CashFlowRow with the whole receivables and inventory as their change
CashFlowRowNoPrev(row, ar_prev, inv_prev, cash_prev) ==
    CashFlowSubtotals(row, cash_prev, Receivable(row), Inventory(row))

\* d_ar, d_inv = ar - ar_prev, inv - inv_prev
CashFlowRow(row, ar_prev, inv_prev, cash_prev) ==
    CashFlowSubtotals(row, cash_prev, FSub(Receivable(row), ar_prev),
                      FSub(Inventory(row), inv_prev))

\* CashIndex one year behind
CashIndexBehind(i) == IF i > 1 THEN i - 1 ELSE i

\* the index into closing_cash_list the balance sheet loop uses for row i
\* (1-based here; the script's i is 0-based on a 0-based list)
CashIndex(i) == i

\* CurrentLiabilities without the equity
CurrentLiabilitiesNoEquity(total_assets, ncl, total_equity) ==
    FSub(total_assets, ncl)

\* cl = total_assets - (ncl + total_equity)
CurrentLiabilities(total_assets, ncl, total_equity) ==
    FSub(total_assets, FAdd(ncl, total_equity))

\* the row the balance sheet loop appends for one income row; its PPE and
\* retained earnings are the loop's ppe_prev and retained_prev afterwards.
\* total_liab_equity = ncl + cl + total_equity and bs_rows.append
BalanceAppend(a, row, cash, ppe, retained, total_equity, total_current_assets, total_assets, cl) ==
    [Year |-> row.Year, PPE |-> ppe, Cash |-> cash, AR |-> Receivable(row),
     Inventory |-> Inventory(row),
     Total_Current_Assets |-> total_current_assets, Total_Assets |-> total_assets,
     Share_Capital |-> a.opening_equity, Retained_Earnings |-> retained,
     Total_Equity |-> total_equity, NCL |-> a.opening_ncl, CL |-> cl,
     Total_Liab_Equity |-> FAdd(FAdd(a.opening_ncl, cl), total_equity)]

\* BalancePlug with the opening current liabilities carried forward, as the
\* non-current liabilities are
BalancePlugCarried(a, row, cash, ppe, retained, total_equity, total_current_assets, total_assets) ==
    BalanceAppend(a, row, cash, ppe, retained, total_equity, total_current_assets,
                  total_assets, a.opening_cl)

\* ncl = opening_ncl; cl = total_assets - (ncl + total_equity)
BalancePlug(a, row, cash, ppe, retained, total_equity, total_current_assets, total_assets) ==
    BalanceAppend(a, row, cash, ppe, retained, total_equity, total_current_assets,
                  total_assets,
                  CurrentLiabilities(total_assets, a.opening_ncl, total_equity))

\* total_assets = total_current_assets + ppe_prev
BalanceAssets(a, row, cash, ppe, retained, total_equity, total_current_assets) ==
    BalancePlug(a, row, cash, ppe, retained, total_equity, total_current_assets,
                FAdd(total_current_assets, ppe))

\* share_capital = opening_equity; total_equity = share_capital + retained_prev;
\* total_current_assets = cash + ar + inv
BalanceRolled(a, row, cash, ppe, retained) ==
    BalanceAssets(a, row, cash, ppe, retained, FAdd(a.opening_equity, retained),
                  FAdd(FAdd(cash, Receivable(row)), Inventory(row)))

\* ppe_prev = ppe_prev + capex - depreciation
RollPPE(ppe_prev, row) == FSub(FAdd(ppe_prev, row.CapEx_Input), row.Depreciation)

\* retained_prev += net_income
RollRetained(retained_prev, row) == FAdd(retained_prev, row.Net_Income)

BalanceRow(a, row, cash, ppe_prev, retained_prev) ==
    BalanceRolled(a, row, cash, RollPPE(ppe_prev, row),
                  RollRetained(retained_prev, row))

\* (Total Assets - Total Liabilities & Equity).abs().max()
RowGap(r) == FAbs(FSub(r.Total_Assets, r.Total_Liab_Equity))

RECURSIVE BalanceGap(_)
BalanceGap(rows) ==
    IF Len(rows) = 1 THEN RowGap(rows[1])
    ELSE FMax(BalanceGap(SubSeq(rows, 1, Len(rows) - 1)), RowGap(rows[Len(rows)]))

\* the literal 0.01
TOLERANCE == FDiv(FromInt(1), FromInt(100))


(***************************************************************************)
(* The inputs a run is started with.                                       *)
(***************************************************************************)
MaxYears == 3

MaxLines == 2

\* slider(...) / 100
Pct(k) == FDiv(FromInt(k), FromInt(100))

\* "Machinery, 300000, 10"
LineMachinery ==
    <<"M", "a", "c", "h", "i", "n", "e", "r", "y", ",", " ", "3", "0", "0", "0", "0", "0", ",", " ", "1", "0">>

\* "Van, 100000, 3"
LineVan ==
    <<"V", "a", "n", ",", " ", "1", "0", "0", "0", "0", "0", ",", " ", "3">>

\* "Foo,bar,baz"
LineFoo ==
    <<"F", "o", "o", ",", "b", "a", "r", ",", "b", "a", "z">>

\* "Shed,5000"
LineShed ==
    <<"S", "h", "e", "d", ",", "5", "0", "0", "0">>

\* "Old, 1000, 0"
LineOld ==
    <<"O", "l", "d", ",", " ", "1", "0", "0", "0", ",", " ", "0">>

\* "Neg, 1000, -5"
LineNeg ==
    <<"N", "e", "g", ",", " ", "1", "0", "0", "0", ",", " ", "-", "5">>

\* "Kit, 12.5, 2"
LineKit ==
    <<"K", "i", "t", ",", " ", "1", "2", ".", "5", ",", " ", "2">>

\* "Pump, n/a, 5"
LinePump ==
    <<"P", "u", "m", "p", ",", " ", "n", "/", "a", ",", " ", "5">>

\* "Bad, 100, 2.5"
LineBad ==
    <<"B", "a", "d", ",", " ", "1", "0", "0", ",", " ", "2", ".", "5">>

AssetLines ==
    {LineMachinery, LineVan, LineFoo, LineShed, LineOld,
     LineNeg, LineKit, LinePump, LineBad}

\* "\n".join(ls)
RECURSIVE Join(_)
Join(ls) ==
    IF ls = << >> THEN << >>
    ELSE IF Len(ls) = 1 THEN ls[1]
    ELSE ls[1] \o <<NL>> \o Join(Tail(ls))

AssetTexts == {Join(ls) : ls \in UNION {[1..n -> AssetLines] : n \in 0..MaxLines}}

\* the sidebar's numbers of the reference scenario (the widgets' defaults
\* with no growth), without the projection years and the asset text
Reference ==
    [opening_cash |-> FromInt(100000), opening_ar |-> FromInt(50000),
     opening_inventory |-> FromInt(30000), opening_ppe |-> FromInt(400000),
     opening_ncl |-> FromInt(100000), opening_cl |-> FromInt(80000),
     opening_equity |-> FromInt(400000), opening_retained |-> FromInt(0),
     units |-> FromInt(10000), price_per_unit |-> FromInt(100),
     unit_growth |-> Pct(0), price_growth |-> Pct(0),
     variable_cost_per_unit |-> FromInt(40), fixed_costs |-> FromInt(200000),
     tax_rate |-> Pct(20), interest |-> FromInt(20000),
     capex_input |-> FromInt(50000), num_employees |-> FromInt(10),
     avg_salary |-> FromInt(30000), salary_growth |-> Pct(0)]

\* growth of units, price and salary in percent
Growths == {<<0, 0, 0>>, <<5, 2, 5>>, <<50, 20, 20>>}

TaxRates == {0, 20, 50}

Interests == {20000, 70000}

UnitCounts == {10000, 1000, 0}

OpeningCLs == {80000, 0}

\* opening non-current liabilities, share capital and PPE: the widgets'
\* defaults, and balances of some 10^14 currency units
Balances ==
    {<<FromInt(100000), FromInt(400000), FromInt(400000)>>,
     <<Scaled(3, 3), Scaled(6, 3), Scaled(6, 3)>>}

Numbers ==
    {[Reference EXCEPT !.unit_growth = Pct(g[1]), !.price_growth = Pct(g[2]),
                       !.salary_growth = Pct(g[3]), !.tax_rate = Pct(t),
                       !.interest = FromInt(i), !.units = FromInt(n),
                       !.opening_cl = FromInt(c), !.opening_ncl = b[1],
                       !.opening_equity = b[2], !.opening_ppe = b[3]] :
        g \in Growths, t \in TaxRates, i \in Interests, n \in UnitCounts,
        c \in OpeningCLs, b \in Balances}

WithRun(a, y, text) ==
    [f \in DOMAIN a \cup {"years", "assets_input"} |->
        IF f = "years" THEN y ELSE IF f = "assets_input" THEN text ELSE a[f]]

\* every combination of numbers with a text of two assets; every asset text
\* (and one of three lines) with the reference numbers; and the reference
\* numbers over three years with one asset
Inputs ==
    {WithRun(a, y, Join(<<LineMachinery, LineVan>>)) : a \in Numbers, y \in 1..MaxYears}
    \cup
    {WithRun(Reference, MaxYears, text) :
        text \in AssetTexts \cup {Join(<<LineMachinery, LineFoo, LineVan>>)}}
    \cup
    {WithRun(Reference, 3, LineMachinery)}

Unset == "unset"

VARIABLES
    inp,                \* the sidebar's inputs
    py_sum,             \* the interpreter's sum(): "naive" or "neumaier"
    pc,                 \* where the script is
    lines_done,         \* lines of the asset text the parsing loop has taken
    assets_list,
    data,               \* the income rows (df)
    u, p, salary,
    cf_rows, closing_cash_list,
    ar_prev, inv_prev, ppe_prev, cash_prev, retained_prev,
    ncl_prev, sc_prev, cl_prev,
    bs_rows,
    balance_gap,
    indicator           \* "success" (st.success) or "warning" (st.warning)

vars == <<inp, py_sum, pc, lines_done, assets_list, data, u, p, salary,
          cf_rows, closing_cash_list, ar_prev, inv_prev, ppe_prev, cash_prev,
          retained_prev, ncl_prev, sc_prev, cl_prev, bs_rows, balance_gap,
          indicator>>

incomeVars == <<data, u, p, salary>>

cashVars == <<cf_rows, closing_cash_list, ar_prev, inv_prev, cash_prev,
              ncl_prev, sc_prev, cl_prev>>

rollVars == <<ppe_prev, retained_prev>>

checkVars == <<balance_gap, indicator>>

Lines == Split(inp.assets_input, NL)

Init ==
    /\ inp \in Inputs
    /\ py_sum \in {"naive", "neumaier"}
    /\ pc = "parse"
    /\ lines_done = 0
    /\ assets_list = << >>
    /\ data = Unset /\ u = Unset /\ p = Unset /\ salary = Unset
    /\ cf_rows = Unset /\ closing_cash_list = Unset
    /\ ar_prev = Unset /\ inv_prev = Unset /\ ppe_prev = Unset
    /\ cash_prev = Unset /\ retained_prev = Unset
    /\ ncl_prev = Unset /\ sc_prev = Unset /\ cl_prev = Unset
    /\ bs_rows = Unset
    /\ balance_gap = Unset /\ indicator = Unset

\* one iteration of: for line in assets_input.split("\n")
ParseLine ==
    /\ pc = "parse"
    /\ lines_done < Len(Lines)
    /\ assets_list' = assets_list \o ParseAssetLine(Lines[lines_done + 1])
    /\ lines_done' = lines_done + 1
    /\ UNCHANGED <<inp, py_sum, pc, incomeVars, cashVars, rollVars, bs_rows, checkVars>>

\* data = []; u, p, salary = units, price_per_unit, avg_salary
IncomeInit ==
    /\ pc = "parse"
    /\ lines_done = Len(Lines)
    /\ data' = << >>
    /\ u' = inp.units
    /\ p' = inp.price_per_unit
    /\ salary' = inp.avg_salary
    /\ pc' = "income"
    /\ UNCHANGED <<inp, py_sum, lines_done, assets_list, cashVars, rollVars, bs_rows, checkVars>>

\* one iteration of: for year in range(1, years + 1).  A zero life raises
\* ZeroDivisionError in the depreciation sum; nothing catches it and the
\* script run ends there.
IncomeYear ==
    /\ pc = "income"
    /\ Len(data) < inp.years
    /\ IF DepreciationRaises(assets_list)
       THEN /\ pc' = "aborted"
            /\ UNCHANGED incomeVars
       ELSE /\ data' = Append(data, IncomeRow(inp, Len(data) + 1, u, p, salary,
                                              assets_list, py_sum))
            /\ u' = Grow(u, inp.unit_growth)
            /\ p' = Grow(p, inp.price_growth)
            /\ salary' = Grow(salary, inp.salary_growth)
            /\ pc' = pc
    /\ UNCHANGED <<inp, py_sum, lines_done, assets_list, cashVars, rollVars, bs_rows, checkVars>>

\* cf_rows = []; closing_cash_list = []; the *_prev variables take the
\* opening balances
CashFlowInit ==
    /\ pc = "income"
    /\ Len(data) = inp.years
    /\ cf_rows' = << >>
    /\ closing_cash_list' = << >>
    /\ ar_prev' = inp.opening_ar
    /\ inv_prev' = inp.opening_inventory
    /\ ppe_prev' = inp.opening_ppe
    /\ cash_prev' = inp.opening_cash
    /\ retained_prev' = inp.opening_retained
    /\ ncl_prev' = inp.opening_ncl
    /\ sc_prev' = inp.opening_equity
    /\ cl_prev' = inp.opening_cl
    /\ pc' = "cashflow"
    /\ UNCHANGED <<inp, py_sum, lines_done, assets_list, incomeVars, bs_rows, checkVars>>

\* one iteration of the cash flow loop over df
CashFlowYear ==
    /\ pc = "cashflow"
    /\ Len(cf_rows) < Len(data)
    /\ cf_rows' = Append(cf_rows, CashFlowRow(data[Len(cf_rows) + 1],
                                              ar_prev, inv_prev, cash_prev))
    /\ closing_cash_list' = Append(closing_cash_list,
                                   cf_rows'[Len(cf_rows')].Closing_Cash)
    /\ ar_prev' = Receivable(data[Len(cf_rows) + 1])
    /\ inv_prev' = Inventory(data[Len(cf_rows) + 1])
    /\ ppe_prev' = RollPPE(ppe_prev, data[Len(cf_rows) + 1])
    /\ cash_prev' = cf_rows'[Len(cf_rows')].Closing_Cash
    /\ retained_prev' = RollRetained(retained_prev, data[Len(cf_rows) + 1])
    /\ UNCHANGED <<inp, py_sum, pc, lines_done, assets_list, incomeVars,
                   ncl_prev, sc_prev, cl_prev, bs_rows, checkVars>>

\* BalanceInit without the reset of ppe_prev and retained_prev, which the
\* cash flow loop has rolled forward to the last year
BalanceInitNoReset ==
    /\ pc = "cashflow"
    /\ Len(cf_rows) = Len(data)
    /\ bs_rows' = << >>
    /\ pc' = "balance"
    /\ UNCHANGED <<inp, py_sum, lines_done, assets_list, incomeVars, cashVars,
                   rollVars, checkVars>>

\* bs_rows = []; ppe_prev = opening_ppe; retained_prev = opening_retained
BalanceInit ==
    /\ pc = "cashflow"
    /\ Len(cf_rows) = Len(data)
    /\ bs_rows' = << >>
    /\ ppe_prev' = inp.opening_ppe
    /\ retained_prev' = inp.opening_retained
    /\ pc' = "balance"
    /\ UNCHANGED <<inp, py_sum, lines_done, assets_list, incomeVars, cashVars, checkVars>>

\* one iteration of the balance sheet loop over df
BalanceYear ==
    /\ pc = "balance"
    /\ Len(bs_rows) < Len(data)
    /\ bs_rows' = Append(bs_rows,
                         BalanceRow(inp, data[Len(bs_rows) + 1],
                                    closing_cash_list[CashIndex(Len(bs_rows) + 1)],
                                    ppe_prev, retained_prev))
    /\ ppe_prev' = bs_rows'[Len(bs_rows')].PPE
    /\ retained_prev' = bs_rows'[Len(bs_rows')].Retained_Earnings
    /\ UNCHANGED <<inp, py_sum, pc, lines_done, assets_list, incomeVars, cashVars, checkVars>>

\* balance_gap and the branch on balance_gap < 0.01
BalanceCheck ==
    /\ pc = "balance"
    /\ Len(bs_rows) = Len(data)
    /\ balance_gap' = BalanceGap(bs_rows)
    /\ indicator' = IF FLess(balance_gap', TOLERANCE) THEN "success" ELSE "warning"
    /\ pc' = "done"
    /\ UNCHANGED <<inp, py_sum, lines_done, assets_list, incomeVars, cashVars, rollVars, bs_rows>>

Next ==
    \/ ParseLine
    \/ IncomeInit
    \/ IncomeYear
    \/ CashFlowInit
    \/ CashFlowYear
    \/ BalanceInit
    \/ BalanceYear
    \/ BalanceCheck

Spec == Init /\ [][Next]_vars

(***************************************************************************)
(* Properties.  Amounts are compared as the doubles they are; where a      *)
(* property speaks of a difference of amounts, the difference is taken in  *)
(* real arithmetic, without rounding.  A run that is not aborted ends in   *)
(* pc = "done", and no row changes once it is appended.                    *)
(***************************************************************************)
\* the run has come to its end with its three tables: each property of the
\* tables' rows is stated of the finished run
Done == pc = "done"

\* x + y and x - y as real numbers
RealAdd(x, y) ==
    IF x.m = << >> THEN y
    ELSE IF y.m = << >> THEN x
    ELSE LET e  == IF x.e < y.e THEN x.e ELSE y.e
             mx == NShl(x.m, x.e - e)
             my == NShl(y.m, y.e - e)
         IN  IF x.s = y.s THEN FCanon(x.s, NAdd(mx, my), e)
             ELSE IF NLess(mx, my) THEN FCanon(y.s, NSub(my, mx), e)
             ELSE FCanon(x.s, NSub(mx, my), e)

RealSub(x, y) == RealAdd(x, FNeg(y))

\* x / 2^bits as a real number
Shrunk(x, bits) ==
    IF bits % LimbBits = 0 THEN FCanon(x.s, x.m, x.e - (bits \div LimbBits))
    ELSE FCanon(x.s, NMul(x.m, <<2 ^ (LimbBits - (bits % LimbBits))>>),
                x.e - (bits \div LimbBits) - 1)

\* |x| <= |y|
MagAtMost(x, y) == ~FMagLess(y, x)

\* |d| is at most 1 / 2^bits of the largest absolute amount of S
WithinShareOf(d, bits, S) == \E x \in S : MagAtMost(d, Shrunk(x, bits))

\* 2^42, some 4.4 * 10^12
BIG == Scaled(2 ^ 12, 2)

\* the four figures the plug is computed from and into
PlugFigures(r) == {r.Total_Assets, r.NCL, r.CL, r.Total_Equity}

\* C1 as the claim states it: in every year of the balance sheet Total
\* Assets equals Total Liabilities & Equity, and so the balance gap is below
\* 0.01 and the script never takes the out-of-balance branch.
C1_AlwaysInBalance ==
    Done =>
        /\ \A t \in 1..Len(bs_rows) :
               bs_rows[t].Total_Assets = bs_rows[t].Total_Liab_Equity
        /\ FLess(balance_gap, TOLERANCE) /\ indicator = "success"

\* C1 as amended: in every year Total Assets and Total Liabilities & Equity
\* differ by at most 2^-49 of the largest of Total Assets, non-current
\* liabilities, current liabilities and total equity (the rounding of the
\* plug); the balance gap is the largest of these differences, and when
\* these figures are all below 2^42 it is below 0.01 and the in-balance
\* branch is taken.
C1_BalancedUpToRounding ==
    Done =>
           /\ \A t \in 1..Len(bs_rows) :
                  WithinShareOf(RealSub(bs_rows[t].Total_Assets,
                                        bs_rows[t].Total_Liab_Equity),
                                49, PlugFigures(bs_rows[t]))
           /\ \E t \in 1..Len(bs_rows) :
                  balance_gap = FAbs(RealSub(bs_rows[t].Total_Assets,
                                             bs_rows[t].Total_Liab_Equity))
           /\ \A t \in 1..Len(bs_rows) :
                  MagAtMost(RealSub(bs_rows[t].Total_Assets,
                                    bs_rows[t].Total_Liab_Equity), balance_gap)
           /\ (\A t \in 1..Len(bs_rows) : \A x \in PlugFigures(bs_rows[t]) :
                   FMagLess(x, BIG))
              => FLess(balance_gap, TOLERANCE) /\ indicator = "success"

\* a finished run with figures below 2^42 whose plug was rounded: the gap is
\* not zero and the in-balance branch was taken
C1_RoundedInBalance ==
    /\ pc = "done"
    /\ balance_gap # FZero
    /\ \A t \in 1..Len(bs_rows) : \A x \in PlugFigures(bs_rows[t]) : FMagLess(x, BIG)
    /\ indicator = "success"

\* C2: in every year of the balance sheet PPE is the previous year's PPE
\* plus capex less depreciation and retained earnings are the previous
\* year's plus net income, the first year starting from the opening PPE and
\* opening retained earnings; share capital and non-current liabilities are
\* the opening values in every year.
C2_RollForward ==
    Done => \A t \in 1..Len(bs_rows) :
        /\ bs_rows[t].PPE =
               FSub(FAdd(IF t = 1 THEN inp.opening_ppe ELSE bs_rows[t - 1].PPE,
                         data[t].CapEx_Input),
                    data[t].Depreciation)
        /\ bs_rows[t].Retained_Earnings =
               FAdd(IF t = 1 THEN inp.opening_retained
                    ELSE bs_rows[t - 1].Retained_Earnings,
                    data[t].Net_Income)
        /\ bs_rows[t].Share_Capital = inp.opening_equity
        /\ bs_rows[t].NCL = inp.opening_ncl

\* a finished run of two years or more whose PPE and retained earnings moved
C2_RolledTwice ==
    /\ pc = "done"
    /\ Len(bs_rows) >= 2
    /\ bs_rows[2].PPE # bs_rows[1].PPE
    /\ bs_rows[1].PPE # inp.opening_ppe
    /\ bs_rows[2].Retained_Earnings # bs_rows[1].Retained_Earnings

\* C3: the cash of the balance sheet row of year t is the closing cash of the
\* cash flow row of the same year t.
C3_CashAgrees ==
    Done => \A t \in 1..Len(bs_rows) : bs_rows[t].Cash = cf_rows[t].Closing_Cash

\* a finished run of two years or more whose closing cash differs between
\* the first two years
C3_CashMoved ==
    /\ pc = "done"
    /\ Len(bs_rows) >= 2
    /\ cf_rows[1].Closing_Cash # cf_rows[2].Closing_Cash

\* profit before tax, as the income statement shows it: EBIT - Interest
PreTax(r) == FSub(r.EBIT, r.Interest)

\* C4: the tax of a year is the pre-tax profit times the tax rate when the
\* pre-tax profit is positive and 0 otherwise, so it is 0 for a loss and 0 at
\* a tax rate of 0; net income is the pre-tax profit less the tax.
C4_TaxRule ==
    Done => \A t \in 1..Len(data) :
        /\ FLess(FZero, PreTax(data[t]))
               => data[t].Taxes = FMul(PreTax(data[t]), inp.tax_rate)
        /\ ~FLess(FZero, PreTax(data[t])) => data[t].Taxes = FZero
        /\ inp.tax_rate = FZero => data[t].Taxes = FZero
        /\ data[t].Net_Income = FSub(PreTax(data[t]), data[t].Taxes)

\* a finished run with a loss before tax in some year at a tax rate above 0
C4_LossYear ==
    /\ pc = "done"
    /\ inp.tax_rate # FZero
    /\ \E t \in 1..Len(data) : FLess(PreTax(data[t]), FZero)

\* C5: an asset entry with a life of 0 or less is dropped from the asset
\* list and the run continues to its end without a division by zero.
C5_NonPositiveLifeRejected ==
    /\ \A i \in 1..Len(assets_list) : assets_list[i].life > 0
    /\ pc # "aborted"

\* the lines of AssetLines with a field count other than 3 or with a value
\* or life that is no number
Malformed == {LineFoo, LineShed, LinePump, LineBad}

\* 12.5
TwelveAndHalf == Scaled(25 * 2 ^ (LimbBits - 1), -1)

\* the asset a well-formed line of AssetLines stands for
WellFormed(line) ==
    CASE line = LineMachinery ->
             [name |-> SubSeq(line, 1, 9), val |-> FromInt(300000), life |-> 10]
      [] line = LineVan ->
             [name |-> SubSeq(line, 1, 3), val |-> FromInt(100000), life |-> 3]
      [] line = LineOld ->
             [name |-> SubSeq(line, 1, 3), val |-> FromInt(1000), life |-> 0]
      [] line = LineNeg ->
             [name |-> SubSeq(line, 1, 3), val |-> FromInt(1000), life |-> -5]
      [] line = LineKit ->
             [name |-> SubSeq(line, 1, 3), val |-> TwelveAndHalf, life |-> 2]

\* the assets of the first n lines, the malformed (and empty) lines left out
RECURSIVE Remaining(_, _)
Remaining(lines, n) ==
    IF n = 0 THEN << >>
    ELSE IF lines[n] \in Malformed \/ lines[n] = << >> THEN Remaining(lines, n - 1)
    ELSE Append(Remaining(lines, n - 1), WellFormed(lines[n]))

\* sum(value / life) over a list of assets, 0 for the empty list
SumOfQuotients(assets, mode) ==
    IF assets = << >> THEN FZero
    ELSE PySum([i \in 1..Len(assets) |-> FDiv(assets[i].val, FromInt(assets[i].life))],
               mode)

\* C6: a malformed asset line is skipped: the asset list holds exactly the
\* assets of the well-formed lines read so far, in their order; a run that
\* has aborted has a well-formed line with life 0 (no malformed line aborts
\* it); and the depreciation of every year is the sum over the assets of the
\* well-formed lines only.
C6_MalformedSkipped ==
    /\ assets_list = Remaining(Lines, lines_done)
    /\ pc = "aborted" => \E i \in 1..Len(Lines) : Lines[i] = LineOld
    /\ Done => \A t \in 1..Len(data) :
           data[t].Depreciation = SumOfQuotients(Remaining(Lines, Len(Lines)), py_sum)

\* a finished run over a malformed line between two well-formed ones
C6_SkippedBetween ==
    /\ pc = "done"
    /\ Lines = <<LineMachinery, LineFoo, LineVan>>
    /\ Len(assets_list) = 2

\* the scenario of C7, whatever the opening balances
C7_Scenario ==
    /\ inp.years = 3
    /\ inp.units = FromInt(10000) /\ inp.price_per_unit = FromInt(100)
    /\ inp.unit_growth = FZero /\ inp.price_growth = FZero
    /\ inp.variable_cost_per_unit = FromInt(40)
    /\ inp.fixed_costs = FromInt(200000)
    /\ inp.num_employees = FromInt(10) /\ inp.avg_salary = FromInt(30000)
    /\ inp.salary_growth = FZero
    /\ Len(assets_list) = 1
    /\ assets_list[1].val = FromInt(300000) /\ assets_list[1].life = 10
    /\ inp.tax_rate = Pct(20)
    /\ inp.interest = FromInt(20000) /\ inp.capex_input = FromInt(50000)

\* C7: in the scenario the income record of year 1, and of years 2 and 3 too,
\* is sales 1,000,000, cost of sales 400,000, gross profit 600,000,
\* depreciation 30,000, manpower 300,000, opex 530,000, EBIT 70,000,
\* pre-tax 50,000, tax 10,000 and net income 40,000.
C7_ReferenceIncome ==
    C7_Scenario /\ Done =>
        \A t \in 1..Len(data) :
            /\ data[t].Sales = FromInt(1000000)
            /\ FSub(data[t].Sales, data[t].Gross_Profit) = FromInt(400000)
            /\ data[t].Gross_Profit = FromInt(600000)
            /\ data[t].Depreciation = FromInt(30000)
            /\ data[t].Manpower = FromInt(300000)
            /\ FAdd(FAdd(data[t].Fixed_Costs, data[t].Manpower), data[t].Depreciation)
                   = FromInt(530000)
            /\ data[t].EBIT = FromInt(70000)
            /\ PreTax(data[t]) = FromInt(50000)
            /\ data[t].Taxes = FromInt(10000)
            /\ data[t].Net_Income = FromInt(40000)

\* the run of the scenario, finished with its three years
C7_ScenarioDone == C7_Scenario /\ Done /\ Len(data) = 3

\* C8: the depreciation of every year is the sum of value / life over the
\* asset list, the same in every year, also in the years after an asset's
\* life has ended, and 0 for the empty list.
C8_DepreciationConstant ==
    Done => \A t \in 1..Len(data) :
        data[t].Depreciation = SumOfQuotients(assets_list, py_sum)

\* a finished run of three years with an asset whose life of two years is
\* over in the third
C8_PastLife ==
    /\ pc = "done"
    /\ Len(data) = 3
    /\ \E i \in 1..Len(assets_list) : assets_list[i].life = 2
    /\ data[3].Depreciation # FZero

\* C9: in every year of the cash flow, with receivables of 20% and inventory
\* of 10% of the year's sales and the opening cash, receivables and inventory
\* before year 1: operating cash flow = net income + depreciation - change
\* of receivables - change of inventory (payables never change), investing
\* cash flow = -capex, financing cash flow = -interest, net change = the sum
\* of the three, closing cash = previous closing cash + net change.
C9_CashFlowRecurrence ==
    Done => \A t \in 1..Len(cf_rows) :
        LET d_ar  == FSub(FMul(data[t].Sales, Pct(20)),
                          IF t = 1 THEN inp.opening_ar
                          ELSE FMul(data[t - 1].Sales, Pct(20)))
            d_inv == FSub(FMul(data[t].Sales, Pct(10)),
                          IF t = 1 THEN inp.opening_inventory
                          ELSE FMul(data[t - 1].Sales, Pct(10)))
            r     == cf_rows[t]
        IN  /\ r.dAR = FNeg(d_ar) /\ r.dInventory = FNeg(d_inv) /\ r.dAP = FZero
            /\ r.Net_CF_Ops =
                   FSub(FSub(FAdd(data[t].Net_Income, data[t].Depreciation), d_ar),
                        d_inv)
            /\ r.Net_CF_Inv = FNeg(data[t].CapEx_Input)
            /\ r.Net_CF_Fin = FNeg(data[t].Interest)
            /\ r.Net_Change_Cash = FAdd(FAdd(r.Net_CF_Ops, r.Net_CF_Inv), r.Net_CF_Fin)
            /\ r.Closing_Cash =
                   FAdd(IF t = 1 THEN inp.opening_cash ELSE cf_rows[t - 1].Closing_Cash,
                        r.Net_Change_Cash)

\* a finished run whose sales, and so receivables and inventory, moved from
\* year 1 to year 2
C9_WorkingCapitalMoved ==
    /\ pc = "done"
    /\ Len(cf_rows) >= 2
    /\ cf_rows[2].dAR # FZero /\ cf_rows[2].dInventory # FZero
    /\ cf_rows[1].dAR # FZero

\* the amounts of an income row, and of a cash flow or balance sheet row
IncomeFigures(r) ==
    {r.Sales, r.Gross_Profit, r.Fixed_Costs, r.Manpower, r.Depreciation, r.EBIT,
     r.Interest, r.Taxes, r.Net_Income, r.CapEx_Input}

RowFigures(r) == {r[f] : f \in DOMAIN r \ {"Year"}}

\* the amounts of year t: of its three rows, and for t = 0 the opening
\* balances other than the opening current liabilities
YearFigures(t) ==
    IF t = 0
    THEN {inp.opening_cash, inp.opening_ar, inp.opening_inventory, inp.opening_ppe,
          inp.opening_ncl, inp.opening_equity, inp.opening_retained}
    ELSE IncomeFigures(data[t]) \cup RowFigures(cf_rows[t]) \cup RowFigures(bs_rows[t])

\* (opening cash + AR + inventory + PPE) - (opening non-current liabilities
\* + share capital + retained earnings), as a real number
OpeningPlug ==
    RealSub(RealAdd(RealAdd(RealAdd(inp.opening_cash, inp.opening_ar),
                            inp.opening_inventory), inp.opening_ppe),
            RealAdd(RealAdd(inp.opening_ncl, inp.opening_equity),
                    inp.opening_retained))

\* current liabilities(t) - (current liabilities(t-1) - interest) as a real
\* number, with the opening plug for current liabilities(0)
PlugDrift(t) ==
    RealAdd(RealSub(bs_rows[t].CL, IF t = 1 THEN OpeningPlug ELSE bs_rows[t - 1].CL),
            inp.interest)

\* x * (1 + growth), n times
RECURSIVE Grown(_, _, _)
Grown(x, growth, n) == IF n = 0 THEN x ELSE Grow(Grown(x, growth, n - 1), growth)

\* the three tables of a whole run on the inputs a with the assets parsed
IncomeTable(a, assets, mode) ==
    [t \in 1..a.years |->
        IncomeRow(a, t, Grown(a.units, a.unit_growth, t - 1),
                  Grown(a.price_per_unit, a.price_growth, t - 1),
                  Grown(a.avg_salary, a.salary_growth, t - 1), assets, mode)]

CashAppended(a, income, n, before) ==
    Append(before,
           CashFlowRow(income[n],
                       IF n = 1 THEN a.opening_ar ELSE Receivable(income[n - 1]),
                       IF n = 1 THEN a.opening_inventory ELSE Inventory(income[n - 1]),
                       IF n = 1 THEN a.opening_cash ELSE before[n - 1].Closing_Cash))

RECURSIVE CashTable(_, _, _)
CashTable(a, income, n) ==
    IF n = 0 THEN << >> ELSE CashAppended(a, income, n, CashTable(a, income, n - 1))

BalanceAppended(a, income, cash, n, before) ==
    Append(before,
           BalanceRow(a, income[n], cash[CashIndex(n)].Closing_Cash,
                      IF n = 1 THEN a.opening_ppe ELSE before[n - 1].PPE,
                      IF n = 1 THEN a.opening_retained
                      ELSE before[n - 1].Retained_Earnings))

RECURSIVE BalanceTable(_, _, _, _)
BalanceTable(a, income, cash, n) ==
    IF n = 0 THEN << >>
    ELSE BalanceAppended(a, income, cash, n, BalanceTable(a, income, cash, n - 1))

\* the rows of a finished run are those of the run on a
SameTables(a) ==
    /\ data = IncomeTable(a, assets_list, py_sum)
    /\ cf_rows = CashTable(a, data, Len(data))
    /\ bs_rows = BalanceTable(a, data, cf_rows, Len(data))

\* C10 as the claim states it: the current liabilities of year 1 are the
\* opening plug less the interest, those of every later year the previous
\* year's less the interest; and other opening current liabilities give the
\* same rows.
C10_PlugClosedForm ==
    Done =>
        /\ \A t \in 1..Len(bs_rows) : PlugDrift(t) = FZero
        /\ \A c \in OpeningCLs :
               FromInt(c) # inp.opening_cl
                   => SameTables([inp EXCEPT !.opening_cl = FromInt(c)])

\* C10 as amended: the current liabilities of a year differ from the
\* previous year's (the opening plug's, for year 1) less the interest by at
\* most 2^-45 of the largest amount of the two years' rows (of the opening
\* balances and the first year's rows, for year 1); and other opening
\* current liabilities give the same rows.
C10_PlugUpToRounding ==
    Done =>
        /\ \A t \in 1..Len(bs_rows) :
               WithinShareOf(PlugDrift(t), 45,
                             YearFigures(t - 1) \cup YearFigures(t))
        /\ \A c \in OpeningCLs :
               FromInt(c) # inp.opening_cl
                   => SameTables([inp EXCEPT !.opening_cl = FromInt(c)])

\* a finished run of two years or more whose current liabilities are off
\* the closed form in some year
C10_Drifted ==
    /\ pc = "done"
    /\ Len(bs_rows) >= 2
    /\ \E t \in 1..Len(bs_rows) : PlugDrift(t) # FZero

====
